---- MODULE Spec2Model ----
(***************************************************************************)
(* Biometric verification server: the Flask endpoints of server/app.py     *)
(* (verify_face, verify_voice, verify_biometric), the predictors they call *)
(* (predict_face, predict_voice) and the service stack of server/routes    *)
(* (FaceAuthService, VoiceAuthService, BiometricAuthService and the two    *)
(* routes in front of them).  Spec serves one request at a time;           *)
(* SpecThreads serves verify_face and verify_biometric on two threads that *)
(* share UPLOAD_DIR.                                                       *)
(*                                                                         *)
(* Floating-point scores are kept in thousandths (0.65 is 650, 0.012 is    *)
(* 12).  NaN is a value of its own: every ordered comparison with it is    *)
(* FALSE, as in Python.  A Python dict is a sequence of <<key, value>>     *)
(* pairs in insertion order with unique keys.  None is the string NoneVal. *)
(***************************************************************************)
EXTENDS Integers, Sequences, FiniteSets, TLC

VARIABLES
    audio_embeddings_pth,  \* content of embedding/audio_embeddings.pth (a dict)
    palash_embedding,      \* FaceAuthService.palash_embedding
    palash_voice,          \* VoiceAuthService.palash_embedding
    pc,                    \* "idle": waiting for a request; "responded"
    endpoint,              \* the handler that served the last request
    image,                 \* what the uploaded image of the request decodes to
    audio,                 \* what the uploaded audio of the request decodes to
    content_length,        \* what the size of the request leads to
    higher,                \* verify_biometric's local flag
    face_res,              \* the face result the handler obtained
    voice_res,             \* the voice result the handler obtained
    loads,                 \* the load_* calls made while serving the request
    resp,                  \* the response: [status, json, body]
    save_uploaded_files,   \* config.SAVE_UPLOADED_FILES as the process reads it
    upload_dir,            \* UPLOAD_DIR: what each file name holds
    workers,               \* the threads of the server, each with its request
    requests               \* the requests the threads have taken so far

\* the state of the server that handles one request at a time
serial == <<pc, endpoint, image, audio, content_length, higher, face_res,
            voice_res, loads, resp>>
\* the state of the server that handles requests on several threads
threaded == <<save_uploaded_files, upload_dir, workers, requests>>

vars == <<audio_embeddings_pth, palash_embedding, palash_voice, pc, endpoint,
          image, audio, content_length, higher, face_res, voice_res, loads, resp,
          save_uploaded_files, upload_dir, workers, requests>>

(***************************************************************************)
(* Program constants (server/config.py and the services' defaults).        *)
(***************************************************************************)
FACE_THRESHOLD == 650
VOICE_THRESHOLD == 12
MULTIMODAL_THRESHOLD == [face |-> FACE_THRESHOLD, voice |-> VOICE_THRESHOLD]
\* default threshold of the three services' verify_user (0.7)
SERVICE_THRESHOLD == 700
SAVE_UPLOADED_FILES == TRUE

(***************************************************************************)
(* Bounds of the model.                                                    *)
(***************************************************************************)
\* most identities enrolled in audio_embeddings.pth
MaxRefs == 2
\* most requests the threaded server takes
MaxRequests == 2

(***************************************************************************)
(* Values.                                                                 *)
(***************************************************************************)
NoneVal == "<None>"
\* None where an embedding is expected
NoEmbedding == <<>>
\* NaN lies outside every score a computation can produce
NaN == -(1000 * 1000)
IsNaN(x) == x = NaN
\* x >= y with the boundary left out
Ge_Strict(x, y) == ~IsNaN(x) /\ ~IsNaN(y) /\ x > y
\* Python's x >= y and x > y on floats
Ge(x, y) == ~IsNaN(x) /\ ~IsNaN(y) /\ x >= y
Gt(x, y) == ~IsNaN(x) /\ ~IsNaN(y) /\ x > y

\* the outcome of a call: a value, or the exception it raised
Ok(v) == [exc |-> "none", val |-> v]
Raise(e) == [exc |-> e, val |-> <<>>]
Raised(r) == r.exc # "none"

\* ---- dict (insertion ordered) ----
Keys(d) == {d[i][1] : i \in 1..Len(d)}
HasKey(d, k) == k \in Keys(d)
Get(d, k) == LET i == CHOOSE j \in 1..Len(d) : d[j][1] = k IN d[i][2]
\* d[k] = v: an existing key keeps its position, a new key goes last
DictSet(d, k, v) ==
    IF HasKey(d, k)
    THEN [i \in 1..Len(d) |-> IF d[i][1] = k THEN <<k, v>> ELSE d[i]]
    ELSE Append(d, <<k, v>>)

(***************************************************************************)
(* Vectors and the cosine metric.                                          *)
(***************************************************************************)
RECURSIVE DotFrom(_, _, _)
DotFrom(a, b, i) == IF i > Len(a) THEN 0 ELSE a[i] * b[i] + DotFrom(a, b, i + 1)
Dot(a, b) == DotFrom(a, b, 1)

\* floor of the square root of n, given lo*lo <= n < hi*hi
RECURSIVE SqrtBetween(_, _, _)
SqrtBetween(n, lo, hi) ==
    IF hi - lo <= 1 THEN lo
    ELSE LET mid == (lo + hi) \div 2
         IN IF mid * mid <= n THEN SqrtBetween(n, mid, hi)
                              ELSE SqrtBetween(n, lo, mid)

\* floor of 1000000 * n / d for 0 <= n <= d, three digits at a time to stay
\* within the model checker's integers
MillionTimes(n, d) ==
    LET q0 == n \div d
        m0 == n % d
        q1 == (1000 * m0) \div d
        m1 == (1000 * m0) % d
    IN 1000 * 1000 * q0 + 1000 * q1 + (1000 * m1) \div d

\* dot(a,b) / (norm(a) * norm(b)) in thousandths, rounded toward zero;
\* a zero norm divides 0.0 by 0.0, which numpy answers with nan
CosineRatio(a, b) ==
    LET uv == Dot(a, b)
        uu == Dot(a, a)
        vv == Dot(b, b)
    IN IF uu * vv = 0 THEN NaN
       ELSE LET r == SqrtBetween(MillionTimes(uv * uv, uu * vv), 0, 1001)
            IN IF uv < 0 THEN -r ELSE r

\* 1 - scipy.spatial.distance.cosine(u, v): vectors of unequal length are
\* refused with a ValueError
OneMinusCosine(u, v) ==
    IF Len(u) # Len(v) THEN Raise("ValueError") ELSE Ok(CosineRatio(u, v))

\* np.dot(a, b) / (np.linalg.norm(a) * np.linalg.norm(b)): np.dot refuses
\* vectors of unequal length with a ValueError
cosine_similarity(a, b) ==
    IF Len(a) # Len(b) THEN Raise("ValueError") ELSE Ok(CosineRatio(a, b))

(***************************************************************************)
(* server/face_verification.py and server/voice_verification.py            *)
(***************************************************************************)
\* filename.rsplit(".", 1)[-1].lower() for the file names of the model
Extension(filename) ==
    CASE filename = "face.png" -> "png"
      [] filename = "face.JPG" -> "jpg"
      [] filename = "face.gif" -> "gif"
      [] filename = "voice.wav" -> "wav"
      [] filename = "voice.MP3" -> "mp3"
      [] filename = "notes.txt" -> "txt"
      [] OTHER -> filename

ALLOWED_IMAGE_EXTENSIONS == {"png", "jpg", "jpeg"}
ALLOWED_AUDIO_EXTENSIONS == {"wav", "mp3"}
allowed_image(filename) == Extension(filename) \in ALLOWED_IMAGE_EXTENSIONS
allowed_audio(filename) == Extension(filename) \in ALLOWED_AUDIO_EXTENSIONS

\* str(name).lower() for the identity names of the model
Lower(name) ==
    CASE name = "Palash" -> "palash"
      [] name = "Diptayan" -> "diptayan"
      [] OTHER -> name

\* predict_face: img.readable is whether Image.open accepts the file, img.p0
\* the softmax probability of class 0 (class 1 has the rest)
predict_face(img) ==
    IF ~img.readable THEN Raise("UnidentifiedImageError")
    ELSE LET probs == <<img.p0, 1000 - img.p0>>
             \* torch.max returns the first index among equal maxima
             pred == IF probs[1] >= probs[2] THEN 0 ELSE 1
             conf == probs[pred + 1]
             person == IF pred = 0 THEN "diptayan" ELSE "palash"
             similarities == << <<"diptayan", probs[1]>>, <<"palash", probs[2]>> >>
         IN Ok([verified |-> Gt(conf, 0),
                person |-> person,
                confidence |-> conf,
                similarities |-> similarities])

\* get_audio_embedding: aud.readable is whether conversion, loading and
\* encoding all succeed, aud.emb the embedding they give
get_audio_embedding(aud) ==
    IF ~aud.readable THEN Raise("RuntimeError") ELSE Ok(aud.emb)

\* the scoring loop with identities whose score is nan left out
RECURSIVE ScoreLoop_SkipNaN(_, _, _, _)
ScoreLoop_SkipNaN(test_emb, refs, i, scores) ==
    IF i > Len(refs) THEN Ok(scores)
    ELSE LET key == Lower(refs[i][1])
             sim == OneMinusCosine(test_emb, refs[i][2])
         IN IF Raised(sim) THEN sim
            ELSE ScoreLoop_SkipNaN(test_emb, refs, i + 1,
                                   IF IsNaN(sim.val) THEN scores
                                   ELSE DictSet(scores, key, sim.val))

\* the scoring loop of predict_voice from entry i of the reference dict on
RECURSIVE ScoreLoop(_, _, _, _)
ScoreLoop(test_emb, refs, i, scores) ==
    IF i > Len(refs) THEN Ok(scores)
    ELSE LET key == Lower(refs[i][1])
             sim == OneMinusCosine(test_emb, refs[i][2])
         IN IF Raised(sim) THEN sim
            ELSE ScoreLoop(test_emb, refs, i + 1, DictSet(scores, key, sim.val))

\* max(scores, key=scores.get) from entry i on: the first key keeps the
\* place unless a later score is strictly greater
RECURSIVE MaxKeyFrom(_, _, _)
MaxKeyFrom(scores, i, best) ==
    IF i > Len(scores) THEN best
    ELSE MaxKeyFrom(scores, i + 1,
                    IF Gt(scores[i][2], Get(scores, best)) THEN scores[i][1] ELSE best)
MaxKey(scores) == MaxKeyFrom(scores, 2, scores[1][1])

predict_voice(aud, audio_embeddings, hi) ==
    LET test_emb == get_audio_embedding(aud)
    IN IF Raised(test_emb) THEN test_emb
       ELSE LET scores == ScoreLoop(test_emb.val, audio_embeddings, 1, <<>>)
            IN IF Raised(scores) THEN scores
               ELSE IF scores.val = <<>> THEN Raise("ValueError")
               ELSE LET best == MaxKey(scores.val)
                    IN Ok([verified |-> IF hi THEN TRUE ELSE TRUE,
                           person |-> best,
                           confidence |-> Get(scores.val, best),
                           similarities |-> scores.val])

(***************************************************************************)
(* server/app.py                                                           *)
(***************************************************************************)
NotCalled == [exc |-> "not called", val |-> <<>>]

\* jsonify(body), status
Json(status, body) == [status |-> status, json |-> TRUE, body |-> body]
\* an exception that leaves the view function: Flask answers 500 with its
\* own error page
Unhandled(exc) == [status |-> 500, json |-> FALSE, body |-> [exception |-> exc]]

\* what a handler did: its response, the results it obtained on the way and
\* the load_* functions it called
Served(r, fres, vres, ld) == [resp |-> r, face_res |-> fres, voice_res |-> vres, loads |-> ld]

\* sorted(similarities.items(), key=lambda x: x[1], reverse=True): stable,
\* an item goes behind the items that are not smaller
RECURSIVE InsertDesc(_, _)
InsertDesc(s, x) ==
    IF s = <<>> THEN <<x>>
    ELSE IF Gt(x[2], Head(s)[2]) THEN <<x>> \o s
    ELSE <<Head(s)>> \o InsertDesc(Tail(s), x)
RECURSIVE SortDescFrom(_, _, _)
SortDescFrom(items, i, acc) ==
    IF i > Len(items) THEN acc
    ELSE SortDescFrom(items, i + 1, InsertDesc(acc, items[i]))
to_results(similarities) ==
    LET items == SortDescFrom(similarities, 1, <<>>)
    IN [i \in 1..Len(items) |-> [className |-> items[i][1], probability |-> items[i][2]]]

verify_face(img) ==
    IF ~img.present
    THEN Served(Json(400, [success |-> FALSE, error |-> "No image file provided"]),
                NotCalled, NotCalled, <<>>)
    ELSE IF img.filename = ""
    THEN Served(Json(400, [success |-> FALSE, error |-> "Empty filename"]),
                NotCalled, NotCalled, <<>>)
    ELSE IF ~allowed_image(img.filename)
    THEN Served(Json(400, [success |-> FALSE, error |-> "Unsupported image type"]),
                NotCalled, NotCalled, <<>>)
    ELSE LET ld == <<"load_face_model">>
             res == predict_face(img)
         IN IF Raised(res) THEN Served(Unhandled(res.exc), res, NotCalled, ld)
            ELSE LET verified == Ge(res.val.confidence, FACE_THRESHOLD)
                     out == [success |-> TRUE,
                             type |-> "face",
                             result |-> [verified |-> verified,
                                         person |-> res.val.person,
                                         confidence |-> res.val.confidence,
                                         similarities |-> res.val.similarities,
                                         threshold |-> FACE_THRESHOLD]]
                 IN Served(Json(200, out), res, NotCalled, ld)

\* verify_voice deciding with the face threshold
verify_voice_FaceThreshold(aud, embeddings_file) ==
    IF ~aud.present
    THEN Served(Json(400, [success |-> FALSE, error |-> "No audio file provided"]),
                NotCalled, NotCalled, <<>>)
    ELSE IF aud.filename = ""
    THEN Served(Json(400, [success |-> FALSE, error |-> "Empty filename"]),
                NotCalled, NotCalled, <<>>)
    ELSE IF ~allowed_audio(aud.filename)
    THEN Served(Json(400, [success |-> FALSE, error |-> "Unsupported audio type"]),
                NotCalled, NotCalled, <<>>)
    ELSE LET ld == <<"load_speechbrain_model", "load_audio_embeddings">>
             res == predict_voice(aud, embeddings_file, FALSE)
         IN IF Raised(res) THEN Served(Unhandled(res.exc), NotCalled, res, ld)
            ELSE LET verified == Ge(res.val.confidence, FACE_THRESHOLD)
                     out == [success |-> TRUE,
                             type |-> "voice",
                             result |-> [verified |-> verified,
                                         person |-> res.val.person,
                                         confidence |-> res.val.confidence,
                                         similarities |-> res.val.similarities,
                                         threshold |-> VOICE_THRESHOLD]]
                 IN Served(Json(200, out), NotCalled, res, ld)

verify_voice(aud, embeddings_file) ==
    IF ~aud.present
    THEN Served(Json(400, [success |-> FALSE, error |-> "No audio file provided"]),
                NotCalled, NotCalled, <<>>)
    ELSE IF aud.filename = ""
    THEN Served(Json(400, [success |-> FALSE, error |-> "Empty filename"]),
                NotCalled, NotCalled, <<>>)
    ELSE IF ~allowed_audio(aud.filename)
    THEN Served(Json(400, [success |-> FALSE, error |-> "Unsupported audio type"]),
                NotCalled, NotCalled, <<>>)
    ELSE LET ld == <<"load_speechbrain_model", "load_audio_embeddings">>
             \* predict_voice's higher parameter keeps its default, False
             res == predict_voice(aud, embeddings_file, FALSE)
         IN IF Raised(res) THEN Served(Unhandled(res.exc), NotCalled, res, ld)
            ELSE LET verified == Ge(res.val.confidence, VOICE_THRESHOLD)
                     out == [success |-> TRUE,
                             type |-> "voice",
                             result |-> [verified |-> verified,
                                         person |-> res.val.person,
                                         confidence |-> res.val.confidence,
                                         similarities |-> res.val.similarities,
                                         threshold |-> VOICE_THRESHOLD]]
                 IN Served(Json(200, out), NotCalled, res, ld)

\* FusionDecision with the voice threshold never applied
FusionDecision_AlwaysBypass(fres, vres, hi) ==
    LET face_verified == Ge(fres.confidence, MULTIMODAL_THRESHOLD.face)
        authenticated == face_verified /\ fres.person = vres.person
    IN [face_verified |-> face_verified,
        voice_verified |-> TRUE,
        both_verified |-> face_verified,
        same_person |-> authenticated,
        authenticated |-> authenticated,
        auth_name |-> IF authenticated THEN fres.person ELSE NoneVal]

\* FusionDecision with the voice threshold applied whatever the flag
FusionDecision_NeverBypass(fres, vres, hi) ==
    LET face_verified == Ge(fres.confidence, MULTIMODAL_THRESHOLD.face)
        voice_verified == Ge(vres.confidence, MULTIMODAL_THRESHOLD.voice)
        authenticated == face_verified /\ voice_verified /\ fres.person = vres.person
    IN [face_verified |-> face_verified,
        voice_verified |-> voice_verified,
        both_verified |-> face_verified /\ voice_verified,
        same_person |-> authenticated,
        authenticated |-> authenticated,
        auth_name |-> IF authenticated THEN fres.person ELSE NoneVal]

\* FusionDecision that names the face's identity whatever the verdict
FusionDecision_NameAlways(fres, vres, hi) ==
    LET face_verified == Ge(fres.confidence, MULTIMODAL_THRESHOLD.face)
        voice_verified == IF hi THEN TRUE
                          ELSE Ge(vres.confidence, MULTIMODAL_THRESHOLD.voice)
        authenticated == face_verified /\ voice_verified /\ fres.person = vres.person
    IN [face_verified |-> face_verified,
        voice_verified |-> voice_verified,
        both_verified |-> face_verified /\ voice_verified,
        same_person |-> authenticated,
        authenticated |-> authenticated,
        auth_name |-> fres.person]

\* FusionDecision that remembers that a request was answered and
\* authenticates nobody after it
FusionDecision_OnceOnly(fres, vres, hi) ==
    LET face_verified == Ge(fres.confidence, MULTIMODAL_THRESHOLD.face)
        voice_verified == IF hi THEN TRUE
                          ELSE Ge(vres.confidence, MULTIMODAL_THRESHOLD.voice)
        answered == \E w \in DOMAIN workers : workers[w].pc = "done"
        authenticated == /\ face_verified /\ voice_verified
                         /\ fres.person = vres.person
                         /\ ~answered
    IN [face_verified |-> face_verified,
        voice_verified |-> voice_verified,
        both_verified |-> face_verified /\ voice_verified,
        same_person |-> authenticated,
        authenticated |-> authenticated,
        auth_name |-> IF authenticated THEN fres.person ELSE NoneVal]

\* verify_biometric from "if higher:" to "auth_name = ..."
FusionDecision(fres, vres, hi) ==
    LET face_verified == Ge(fres.confidence, MULTIMODAL_THRESHOLD.face)
        voice_verified == IF hi THEN TRUE
                          ELSE Ge(vres.confidence, MULTIMODAL_THRESHOLD.voice)
        both_verified == face_verified /\ voice_verified
        same_person == (fres.person = vres.person) /\ both_verified
        authenticated == both_verified /\ same_person
    IN [face_verified |-> face_verified,
        voice_verified |-> voice_verified,
        both_verified |-> both_verified,
        same_person |-> same_person,
        authenticated |-> authenticated,
        auth_name |-> IF authenticated THEN fres.person ELSE NoneVal]

\* the response verify_biometric builds from the two results
BiometricOut(fres, vres, hi) ==
    LET d == FusionDecision(fres, vres, hi)
    IN [image |-> [results |-> to_results(fres.similarities)],
        audio |-> [results |-> to_results(vres.similarities)],
        result |-> [authenticated |-> d.authenticated, name |-> d.auth_name]]

verify_biometric(img, aud, embeddings_file, hi) ==
    IF ~img.present \/ ~aud.present
    THEN Served(Json(400, [success |-> FALSE,
                           error |-> "Both image and audio files are required"]),
                NotCalled, NotCalled, <<>>)
    ELSE IF img.filename = "" \/ aud.filename = ""
    THEN Served(Json(400, [success |-> FALSE, error |-> "Empty filename(s)"]),
                NotCalled, NotCalled, <<>>)
    ELSE IF ~allowed_image(img.filename) \/ ~allowed_audio(aud.filename)
    THEN Served(Json(400, [success |-> FALSE, error |-> "Unsupported file type(s)"]),
                NotCalled, NotCalled, <<>>)
    ELSE LET fres == predict_face(img)
         IN IF Raised(fres)
            THEN Served(Unhandled(fres.exc), fres, NotCalled, <<"load_face_model">>)
            ELSE LET ld == <<"load_face_model", "load_speechbrain_model",
                             "load_audio_embeddings">>
                     vres == predict_voice(aud, embeddings_file, hi)
                 IN IF Raised(vres) THEN Served(Unhandled(vres.exc), fres, vres, ld)
                    ELSE Served(Json(200, BiometricOut(fres.val, vres.val, hi)),
                                fres, vres, ld)

(***************************************************************************)
(* server/services                                                         *)
(***************************************************************************)
\* FaceAuthService.get_embedding_from_image: img.decodable is whether
\* b64decode and Image.open accept the data, img.faces whether MTCNN
\* detects a face, img.emb the FaceNet embedding of the first face
get_embedding_from_image(img) ==
    IF ~img.decodable THEN Raise("UnidentifiedImageError")
    ELSE IF ~img.faces THEN Ok(NoEmbedding)
    ELSE Ok(img.emb)

FaceAuthService_verify_user(img, reference, threshold) ==
    LET embedding == get_embedding_from_image(img)
    IN IF Raised(embedding) THEN embedding
       ELSE IF embedding.val = NoEmbedding
       THEN Ok([success |-> FALSE, error |-> "No face detected", similarity |-> 0])
       ELSE LET sim == cosine_similarity(embedding.val, reference)
            IN IF Raised(sim) THEN sim
               ELSE LET is_authenticated == Ge(sim.val, threshold)
                    IN Ok([success |-> TRUE,
                           authenticated |-> is_authenticated,
                           similarity |-> sim.val,
                           result |-> IF is_authenticated THEN 1 ELSE 0])

\* VoiceAuthService.get_embedding_from_audio: every exception becomes None
get_embedding_from_audio(aud) ==
    IF ~aud.readable THEN NoEmbedding ELSE aud.emb

VoiceAuthService_verify_user(aud, reference, threshold) ==
    LET embedding == get_embedding_from_audio(aud)
    IN IF embedding = NoEmbedding
       THEN [success |-> FALSE,
             error |-> "Failed to process audio",
             authenticated |-> FALSE,
             similarity |-> 0,
             result |-> 0]
       ELSE LET sim == cosine_similarity(embedding, reference)
            IN IF Raised(sim)
               THEN [success |-> FALSE,
                     error |-> "Voice verification failed: " \o sim.exc,
                     authenticated |-> FALSE,
                     similarity |-> 0,
                     result |-> 0]
               ELSE LET is_authenticated == Ge(sim.val, threshold)
                    IN [success |-> TRUE,
                        authenticated |-> is_authenticated,
                        similarity |-> sim.val,
                        result |-> IF is_authenticated THEN 1 ELSE 0]

\* (a + b) / 2 on floats
Mean(a, b) == IF IsNaN(a) \/ IsNaN(b) THEN NaN ELSE (a + b) \div 2

\* BiometricAuthService.verify_user with "success": True on every fused result
BiometricAuthService_verify_user_SuccessTrue(img, aud, face_ref, voice_ref, face_threshold, voice_threshold) ==
    LET face_result == FaceAuthService_verify_user(img, face_ref, face_threshold)
    IN IF Raised(face_result)
       THEN [ret |-> face_result, face_res |-> face_result, voice_res |-> NotCalled]
       ELSE LET voice_result == VoiceAuthService_verify_user(aud, voice_ref, voice_threshold)
                fr == face_result.val
                ret ==
                    IF ~fr.success
                    THEN [success |-> FALSE,
                          error |-> "Face verification failed",
                          face_result |-> fr]
                    ELSE IF ~voice_result.success
                    THEN [success |-> FALSE,
                          error |-> "Voice verification failed",
                          voice_result |-> voice_result]
                    ELSE LET is_authenticated == fr.authenticated /\ voice_result.authenticated
                         IN [success |-> TRUE,
                             message |-> IF is_authenticated
                                         THEN "Authentication successful"
                                         ELSE "Authentication failed",
                             name |-> IF is_authenticated THEN "Palash Shah" ELSE NoneVal,
                             confidence |-> Mean(fr.similarity, voice_result.similarity),
                             faceMatch |-> fr.authenticated,
                             voiceMatch |-> voice_result.authenticated,
                             face_similarity |-> fr.similarity,
                             voice_similarity |-> voice_result.similarity,
                             result |-> IF is_authenticated THEN 1 ELSE 0]
            IN [ret |-> Ok(ret), face_res |-> face_result, voice_res |-> Ok(voice_result)]

\* BiometricAuthService.verify_user; gives the outcome of the call and the
\* two results it obtained
BiometricAuthService_verify_user(img, aud, face_ref, voice_ref, face_threshold, voice_threshold) ==
    LET face_result == FaceAuthService_verify_user(img, face_ref, face_threshold)
    IN IF Raised(face_result)
       THEN [ret |-> face_result, face_res |-> face_result, voice_res |-> NotCalled]
       ELSE LET voice_result == VoiceAuthService_verify_user(aud, voice_ref, voice_threshold)
                fr == face_result.val
                ret ==
                    IF ~fr.success
                    THEN [success |-> FALSE,
                          error |-> "Face verification failed",
                          face_result |-> fr]
                    ELSE IF ~voice_result.success
                    THEN [success |-> FALSE,
                          error |-> "Voice verification failed",
                          voice_result |-> voice_result]
                    ELSE LET is_authenticated == fr.authenticated /\ voice_result.authenticated
                         IN [success |-> is_authenticated,
                             message |-> IF is_authenticated
                                         THEN "Authentication successful"
                                         ELSE "Authentication failed",
                             name |-> IF is_authenticated THEN "Palash Shah" ELSE NoneVal,
                             confidence |-> Mean(fr.similarity, voice_result.similarity),
                             faceMatch |-> fr.authenticated,
                             voiceMatch |-> voice_result.authenticated,
                             face_similarity |-> fr.similarity,
                             voice_similarity |-> voice_result.similarity,
                             result |-> IF is_authenticated THEN 1 ELSE 0]
            IN [ret |-> Ok(ret), face_res |-> face_result, voice_res |-> Ok(voice_result)]

(***************************************************************************)
(* server/routes/auth_routes.py                                            *)
(***************************************************************************)
\* POST /authenticate; req.is_json is whether get_json() gives a dict
authenticate_face(req, face_ref) ==
    IF ~req.is_json
    THEN Served(Json(500, [success |-> FALSE, error |-> "TypeError"]),
                NotCalled, NotCalled, <<>>)
    ELSE IF ~req.present
    THEN Served(Json(400, [success |-> FALSE, error |-> "No image data provided"]),
                NotCalled, NotCalled, <<>>)
    ELSE LET result == FaceAuthService_verify_user(req, face_ref, SERVICE_THRESHOLD)
         IN IF Raised(result)
            THEN Served(Json(500, [success |-> FALSE, error |-> result.exc]),
                        result, NotCalled, <<>>)
            ELSE IF ~result.val.success
            THEN Served(Json(400, result.val), result, NotCalled, <<>>)
            ELSE Served(Json(200, result.val), result, NotCalled, <<>>)

\* POST /biometric/authenticate; length is what the request's size leads to
authenticate_biometric(img, aud, length, face_ref, voice_ref) ==
    IF length = "over 50MB"
    THEN Served(Json(413, [success |-> FALSE, error |-> "File too large. Maximum size is 50MB"]),
                NotCalled, NotCalled, <<>>)
    ELSE IF length = "RequestEntityTooLarge"
    THEN Served(Json(413, [success |-> FALSE,
                           error |-> "File too large. Please reduce the file size and try again."]),
                NotCalled, NotCalled, <<>>)
    ELSE IF ~img.present \/ ~aud.present
    THEN LET missing == IF ~img.present /\ ~aud.present THEN "image, audio"
                        ELSE IF ~img.present THEN "image" ELSE "audio"
         IN Served(Json(400, [success |-> FALSE, error |-> "Missing data: " \o missing]),
                   NotCalled, NotCalled, <<>>)
    ELSE LET call == BiometricAuthService_verify_user(img, aud, face_ref, voice_ref,
                                                      SERVICE_THRESHOLD, SERVICE_THRESHOLD)
         IN IF Raised(call.ret)
            THEN Served(Json(500, [success |-> FALSE, error |-> call.ret.exc]),
                        call.face_res, call.voice_res, <<>>)
            ELSE IF ~call.ret.val.success
            THEN Served(Json(400, call.ret.val), call.face_res, call.voice_res, <<>>)
            ELSE Served(Json(200, call.ret.val), call.face_res, call.voice_res, <<>>)

(***************************************************************************)
(* The requests the model sends.                                           *)
(***************************************************************************)
\* softmax probabilities of class 0 the face model gives
FaceP0 == {100, 350, 500, 649, 650, 800}
\* embeddings of an enrolled voice and of an uploaded clip
RefEmbs == {<<1, 0>>, <<1, 83>>, <<1, 199>>, <<0, 0>>}
TestEmbs == {<<1, 0>>, <<0, 0>>, <<1, 0, 0>>}
\* identity names audio_embeddings.pth may hold
RefNames == {"diptayan", "palash", "Palash"}
\* embeddings the services receive and hold
ServiceEmbs == {<<1, 0>>, <<100, 102>>, <<100, 103>>, <<0, 0>>, <<1, 0, 0>>}
ServiceRefs == {<<1, 0>>, <<0, 0>>}

\* uploads of the app.py endpoints
AppImages ==
    [present : {TRUE}, filename : {"face.png"}, readable : {TRUE}, p0 : FaceP0]
    \cup {[present |-> TRUE, filename |-> "face.JPG", readable |-> FALSE, p0 |-> 0],
          [present |-> FALSE, filename |-> "", readable |-> FALSE, p0 |-> 0],
          [present |-> TRUE, filename |-> "", readable |-> FALSE, p0 |-> 0],
          [present |-> TRUE, filename |-> "face.gif", readable |-> TRUE, p0 |-> 800]}
AppAudios ==
    [present : {TRUE}, filename : {"voice.wav"}, readable : {TRUE}, emb : TestEmbs]
    \cup {[present |-> TRUE, filename |-> "voice.MP3", readable |-> FALSE, emb |-> <<1, 0>>],
          [present |-> FALSE, filename |-> "", readable |-> FALSE, emb |-> <<1, 0>>],
          [present |-> TRUE, filename |-> "", readable |-> FALSE, emb |-> <<1, 0>>],
          [present |-> TRUE, filename |-> "notes.txt", readable |-> TRUE, emb |-> <<1, 0>>]}

\* request data of the routes
ServiceImages ==
    [is_json : {TRUE}, present : {TRUE}, decodable : {TRUE}, faces : {TRUE}, emb : ServiceEmbs]
    \cup {[is_json |-> TRUE, present |-> TRUE, decodable |-> TRUE, faces |-> FALSE, emb |-> <<1, 0>>],
          [is_json |-> TRUE, present |-> TRUE, decodable |-> FALSE, faces |-> FALSE, emb |-> <<1, 0>>],
          [is_json |-> TRUE, present |-> FALSE, decodable |-> FALSE, faces |-> FALSE, emb |-> <<1, 0>>],
          [is_json |-> FALSE, present |-> FALSE, decodable |-> FALSE, faces |-> FALSE, emb |-> <<1, 0>>]}
ServiceAudios ==
    [present : {TRUE}, readable : {TRUE}, emb : ServiceEmbs]
    \cup {[present |-> TRUE, readable |-> FALSE, emb |-> <<1, 0>>],
          [present |-> FALSE, readable |-> FALSE, emb |-> <<1, 0>>]}
Lengths == {"within", "over 50MB", "RequestEntityTooLarge"}

\* the dicts of at most n entries with distinct keys
RECURSIVE DictsUpTo(_)
DictsUpTo(n) ==
    IF n = 0 THEN {<<>>}
    ELSE LET smaller == DictsUpTo(n - 1)
         IN smaller \cup
            {Append(d, <<k, e>>) : d \in {x \in smaller : Len(x) = n - 1},
                                   k \in RefNames, e \in RefEmbs}
ReferenceFiles == {d \in DictsUpTo(MaxRefs) : Cardinality(Keys(d)) = Len(d)}

(***************************************************************************)
(* The server.                                                             *)
(***************************************************************************)
NoUpload == [present |-> FALSE]
NoResponse == [status |-> 0, json |-> FALSE, body |-> [none |-> TRUE]]

\* what the process finds on disk when it starts: the app.py stack reads
\* audio_embeddings.pth, the services read the two palash files; neither
\* stack reads the other's files, so each is varied with the other held
Installations ==
    [file : ReferenceFiles, face : {<<1, 0>>}, voice : {<<1, 0>>}]
    \cup [file : {<<>>}, face : ServiceRefs, voice : ServiceRefs]

\* the threads of the server
Workers == {"t1", "t2"}
\* the file names tempfile can draw in UPLOAD_DIR
TmpNames == 1..(2 * MaxRequests)
NoPath == 0
\* what a file name of UPLOAD_DIR holds; rid is the request that made the file
NoFile == [kind |-> "none"]
ImageFile(rid, img) == [kind |-> "image", rid |-> rid, data |-> img]
AudioFile(rid, aud) == [kind |-> "audio", rid |-> rid, data |-> aud]
PartialFile(rid) == [kind |-> "partial", rid |-> rid]
EmptyDir == [n \in TmpNames |-> NoFile]

\* a thread that waits for a request
IdleWorker ==
    [pc |-> "idle", rid |-> 0, endpoint |-> "none",
     image |-> NoUpload, audio |-> NoUpload,
     img_path |-> NoPath, aud_path |-> NoPath,
     face_res |-> NotCalled, voice_res |-> NotCalled,
     pending |-> NoResponse, resp |-> NoResponse, io_error |-> FALSE]

Init ==
    /\ save_uploaded_files = SAVE_UPLOADED_FILES
    /\ upload_dir = EmptyDir
    /\ workers = [w \in Workers |-> IdleWorker]
    /\ requests = 0
    /\ \E inst \in Installations :
          /\ audio_embeddings_pth = inst.file
          /\ palash_embedding = inst.face
          /\ palash_voice = inst.voice
    /\ pc = "idle"
    /\ endpoint = "none"
    /\ image = NoUpload
    /\ audio = NoUpload
    /\ content_length = "within"
    /\ higher = TRUE
    /\ face_res = NotCalled
    /\ voice_res = NotCalled
    /\ loads = <<>>
    /\ resp = NoResponse

\* a handler that writes the lower-cased names it scored back to the
\* reference set
Respond_StoresLoweredNames(name, img, aud, served) ==
    /\ pc = "idle"
    /\ pc' = "responded"
    /\ endpoint' = name
    /\ image' = img
    /\ audio' = aud
    /\ face_res' = served.face_res
    /\ voice_res' = served.voice_res
    /\ loads' = served.loads
    /\ resp' = served.resp
    /\ audio_embeddings_pth' =
          IF served.voice_res.exc = "none"
          THEN [i \in 1..Len(audio_embeddings_pth) |->
                   <<Lower(audio_embeddings_pth[i][1]), audio_embeddings_pth[i][2]>>]
          ELSE audio_embeddings_pth
    /\ UNCHANGED <<palash_embedding, palash_voice>>
    /\ UNCHANGED threaded

\* a handler ran to its response
Respond(name, img, aud, served) ==
    /\ pc = "idle"
    /\ pc' = "responded"
    /\ endpoint' = name
    /\ image' = img
    /\ audio' = aud
    /\ face_res' = served.face_res
    /\ voice_res' = served.voice_res
    /\ loads' = served.loads
    /\ resp' = served.resp
    /\ UNCHANGED <<audio_embeddings_pth, palash_embedding, palash_voice>>
    /\ UNCHANGED threaded

VerifyFace ==
    \E img \in AppImages :
        /\ Respond("verify_face", img, NoUpload, verify_face(img))
        /\ UNCHANGED <<higher, content_length>>

VerifyVoice ==
    \E aud \in AppAudios :
        /\ Respond("verify_voice", NoUpload, aud, verify_voice(aud, audio_embeddings_pth))
        /\ UNCHANGED <<higher, content_length>>

VerifyBiometric ==
    \E img \in AppImages, aud \in AppAudios :
        /\ higher' = TRUE
        /\ Respond("verify_biometric", img, aud,
                   verify_biometric(img, aud, audio_embeddings_pth, higher'))
        /\ UNCHANGED content_length

AuthenticateFace ==
    \E img \in ServiceImages :
        /\ Respond("authenticate_face", img, NoUpload, authenticate_face(img, palash_embedding))
        /\ UNCHANGED <<higher, content_length>>

AuthenticateBiometric ==
    \E img \in {i \in ServiceImages : i.is_json}, aud \in ServiceAudios, length \in Lengths :
        /\ length # "within" => (img.present /\ img.faces /\ aud.present /\ aud.readable)
        /\ content_length' = length
        /\ Respond("authenticate_biometric", img, aud,
                   authenticate_biometric(img, aud, length, palash_embedding, palash_voice))
        /\ UNCHANGED higher

\* the response is sent and the request's context is torn down; the server
\* waits for the next request
NextRequest ==
    /\ pc = "responded"
    /\ pc' = "idle"
    /\ endpoint' = "none"
    /\ image' = NoUpload
    /\ audio' = NoUpload
    /\ content_length' = "within"
    /\ face_res' = NotCalled
    /\ voice_res' = NotCalled
    /\ loads' = <<>>
    /\ higher' = TRUE
    /\ resp' = NoResponse
    /\ UNCHANGED <<audio_embeddings_pth, palash_embedding, palash_voice>>
    /\ UNCHANGED threaded

Next ==
    \/ VerifyFace
    \/ VerifyVoice
    \/ VerifyBiometric
    \/ AuthenticateFace
    \/ AuthenticateBiometric
    \/ NextRequest

Spec == Init /\ [][Next]_vars

(***************************************************************************)
(* verify_biometric fixes higher = True on its first line, so the server   *)
(* above never takes the branch "voice_verified = confidence >= threshold".*)
(* SpecModes is the same server with verify_biometric's flag taken from    *)
(* BOOLEAN: it has every behaviour of Spec and, in addition, the requests  *)
(* the handler would serve with higher = False.                            *)
(***************************************************************************)
VerifyBiometricStrict ==
    \E img \in AppImages, aud \in AppAudios :
        /\ higher' = FALSE
        /\ Respond("verify_biometric", img, aud,
                   verify_biometric(img, aud, audio_embeddings_pth, higher'))
        /\ UNCHANGED content_length

NextModes ==
    \/ VerifyFace
    \/ VerifyVoice
    \/ VerifyBiometric
    \/ VerifyBiometricStrict
    \/ AuthenticateFace
    \/ AuthenticateBiometric
    \/ NextRequest

SpecModes == Init /\ [][NextModes]_vars

(***************************************************************************)
(* The server on several threads (app.run serves each request on a thread  *)
(* of its own).  A handler is cut where it touches what the threads share: *)
(* UPLOAD_DIR and the reference file.  SAVE_UPLOADED_FILES is read from    *)
(* the configuration, which its comment tells to set to False in           *)
(* production; SpecThreads runs the handlers under either value.           *)
(***************************************************************************)
\* the requests the threads take
ThreadImages ==
    {[present |-> TRUE, filename |-> "face.png", readable |-> TRUE, p0 |-> 800],
     [present |-> TRUE, filename |-> "face.png", readable |-> TRUE, p0 |-> 100],
     [present |-> TRUE, filename |-> "face.JPG", readable |-> FALSE, p0 |-> 0],
     [present |-> TRUE, filename |-> "face.gif", readable |-> TRUE, p0 |-> 800]}
ThreadAudios ==
    {[present |-> TRUE, filename |-> "voice.wav", readable |-> TRUE, emb |-> <<1, 0>>],
     [present |-> TRUE, filename |-> "voice.wav", readable |-> TRUE, emb |-> <<1, 83>>]}
ThreadRequests ==
    {[endpoint |-> "verify_biometric", image |-> i, audio |-> a] :
        i \in ThreadImages, a \in {x \in ThreadAudios : x.emb = <<1, 0>>}}
    \cup {[endpoint |-> "verify_biometric", image |-> i, audio |-> a] :
             i \in {x \in ThreadImages : x.p0 = 100},
             a \in {x \in ThreadAudios : x.emb = <<1, 83>>}}
    \cup {[endpoint |-> "verify_face", image |-> i, audio |-> NoUpload] :
             i \in {x \in ThreadImages : x.p0 = 100}}
\* the reference file of the threaded server
ThreadReferenceFile == << <<"diptayan", <<1, 0>> >>, <<"Palash", <<1, 83>> >> >>

\* the answer of the handler that runs alone
RunAlone(ep, img, aud) ==
    CASE ep = "verify_face" -> verify_face(img).resp
      [] ep = "verify_voice" -> verify_voice(aud, audio_embeddings_pth).resp
      [] ep = "verify_biometric" ->
            verify_biometric(img, aud, audio_embeddings_pth, TRUE).resp

\* the checks of verify_face and verify_biometric on request.files, before
\* the first save: the 400 answer, or NoResponse when the request passes
Refusal(ep, img, aud) ==
    IF ep = "verify_face"
    THEN IF ~img.present
         THEN Json(400, [success |-> FALSE, error |-> "No image file provided"])
         ELSE IF img.filename = ""
         THEN Json(400, [success |-> FALSE, error |-> "Empty filename"])
         ELSE IF ~allowed_image(img.filename)
         THEN Json(400, [success |-> FALSE, error |-> "Unsupported image type"])
         ELSE NoResponse
    ELSE IF ~img.present \/ ~aud.present
         THEN Json(400, [success |-> FALSE,
                         error |-> "Both image and audio files are required"])
         ELSE IF img.filename = "" \/ aud.filename = ""
         THEN Json(400, [success |-> FALSE, error |-> "Empty filename(s)"])
         ELSE IF ~allowed_image(img.filename) \/ ~allowed_audio(aud.filename)
         THEN Json(400, [success |-> FALSE, error |-> "Unsupported file type(s)"])
         ELSE NoResponse

\* a tempfile that may open any name, a file of that name or none
NamedTemporaryFile_AnyName(dir) == TmpNames
\* tempfile.NamedTemporaryFile(delete=False, dir=UPLOAD_DIR) opens a name
\* that no file of the directory has.  The handlers pass the name on and
\* never look into it, so the names are interchangeable and the least unused
\* one stands for whichever name is drawn (a name freed by os.remove is
\* taken again at once)
NamedTemporaryFile(dir) ==
    LET unused == {n \in TmpNames : dir[n].kind = "none"}
    IN {n \in unused : \A m \in unused : n <= m}

\* how a save may end: the file is written; NamedTemporaryFile fails and no
\* file is made; file_storage.save fails after the file was made
SaveOutcomes == {"saved", "create failed", "write failed"}
save_uploaded_file(dir, n, file, outcome) ==
    CASE outcome = "saved" ->
            [dir |-> [dir EXCEPT ![n] = file], ret |-> Ok(n)]
      [] outcome = "write failed" ->
            [dir |-> [dir EXCEPT ![n] = PartialFile(file.rid)], ret |-> Raise("OSError")]
      [] outcome = "create failed" ->
            [dir |-> dir, ret |-> Raise("OSError")]

\* os.remove(path) with every exception passed over
Remove(dir, path) ==
    IF path \in TmpNames THEN [dir EXCEPT ![path] = NoFile] ELSE dir

\* what Image.open (torchaudio.load) finds at the path
OpenImage(dir, path) ==
    IF dir[path].kind = "image" THEN dir[path].data
    ELSE [present |-> TRUE, filename |-> "", readable |-> FALSE, p0 |-> 0]
OpenAudio(dir, path) ==
    IF dir[path].kind = "audio" THEN dir[path].data
    ELSE [present |-> TRUE, filename |-> "", readable |-> FALSE, emb |-> <<>>]

\* the body verify_face builds from a result
FaceOut(res) ==
    [success |-> TRUE,
     type |-> "face",
     result |-> [verified |-> Ge(res.confidence, FACE_THRESHOLD),
                 person |-> res.person,
                 confidence |-> res.confidence,
                 similarities |-> res.similarities,
                 threshold |-> FACE_THRESHOLD]]

InitThreads ==
    /\ audio_embeddings_pth = ThreadReferenceFile
    /\ palash_embedding = <<1, 0>>
    /\ palash_voice = <<1, 0>>
    /\ pc = "idle"
    /\ endpoint = "none"
    /\ image = NoUpload
    /\ audio = NoUpload
    /\ content_length = "within"
    /\ higher = TRUE
    /\ face_res = NotCalled
    /\ voice_res = NotCalled
    /\ loads = <<>>
    /\ resp = NoResponse
    /\ save_uploaded_files \in BOOLEAN
    /\ upload_dir = EmptyDir
    /\ workers = [w \in Workers |-> IdleWorker]
    /\ requests = 0

\* thread w goes on as nw; nothing but the directory changes beside it
Step(w, nw, dir) ==
    /\ workers' = [workers EXCEPT ![w] = nw]
    /\ upload_dir' = dir
    /\ UNCHANGED <<audio_embeddings_pth, palash_embedding, palash_voice,
                   save_uploaded_files>>
    /\ UNCHANGED serial

\* the handler starts: the checks on request.files
Receive(w) ==
    /\ workers[w].pc = "idle"
    /\ requests < MaxRequests
    /\ requests' = requests + 1
    /\ \E req \in ThreadRequests :
          LET refused == Refusal(req.endpoint, req.image, req.audio)
              nw == [IdleWorker EXCEPT !.rid = requests + 1,
                                       !.endpoint = req.endpoint,
                                       !.image = req.image,
                                       !.audio = req.audio]
          IN IF refused # NoResponse
             THEN Step(w, [nw EXCEPT !.pc = "done", !.resp = refused], upload_dir)
             ELSE Step(w, [nw EXCEPT !.pc = "save_image"], upload_dir)

\* path = save_uploaded_file(f) / img_path = save_uploaded_file(img): it
\* stands before the try, so what it raises leaves the handler at once
SaveImage(w) ==
    /\ workers[w].pc = "save_image"
    /\ \E n \in NamedTemporaryFile(upload_dir), outcome \in SaveOutcomes :
          LET me == workers[w]
              saved == save_uploaded_file(upload_dir, n, ImageFile(me.rid, me.image), outcome)
          IN IF Raised(saved.ret)
             THEN Step(w, [me EXCEPT !.pc = "done",
                                     !.resp = Unhandled(saved.ret.exc),
                                     !.io_error = TRUE], saved.dir)
             ELSE Step(w, [me EXCEPT !.img_path = saved.ret.val,
                                     !.pc = IF me.endpoint = "verify_face"
                                            THEN "predict_face" ELSE "save_audio"],
                       saved.dir)
    /\ UNCHANGED requests

\* aud_path = save_uploaded_file(aud), also before the try
SaveAudio(w) ==
    /\ workers[w].pc = "save_audio"
    /\ \E n \in NamedTemporaryFile(upload_dir), outcome \in SaveOutcomes :
          LET me == workers[w]
              saved == save_uploaded_file(upload_dir, n, AudioFile(me.rid, me.audio), outcome)
          IN IF Raised(saved.ret)
             THEN Step(w, [me EXCEPT !.pc = "done",
                                     !.resp = Unhandled(saved.ret.exc),
                                     !.io_error = TRUE], saved.dir)
             ELSE Step(w, [me EXCEPT !.aud_path = saved.ret.val, !.pc = "predict_face"],
                       saved.dir)
    /\ UNCHANGED requests

\* load_face_model() and predict_face(path), inside the try
PredictFace(w) ==
    /\ workers[w].pc = "predict_face"
    /\ LET me == workers[w]
           res == predict_face(OpenImage(upload_dir, me.img_path))
       IN IF Raised(res)
          THEN Step(w, [me EXCEPT !.pc = "finally",
                                  !.face_res = res,
                                  !.pending = Unhandled(res.exc)], upload_dir)
          ELSE IF me.endpoint = "verify_face"
          THEN Step(w, [me EXCEPT !.pc = "finally",
                                  !.face_res = res,
                                  !.pending = Json(200, FaceOut(res.val))], upload_dir)
          ELSE Step(w, [me EXCEPT !.pc = "predict_voice", !.face_res = res], upload_dir)
    /\ UNCHANGED requests

\* load_speechbrain_model(), load_audio_embeddings() and predict_voice(path),
\* then the decision of verify_biometric, which touches nothing shared
PredictVoice(w) ==
    /\ workers[w].pc = "predict_voice"
    /\ LET me == workers[w]
           res == predict_voice(OpenAudio(upload_dir, me.aud_path),
                                audio_embeddings_pth, TRUE)
       IN IF Raised(res)
          THEN Step(w, [me EXCEPT !.pc = "finally",
                                  !.voice_res = res,
                                  !.pending = Unhandled(res.exc)], upload_dir)
          ELSE Step(w, [me EXCEPT !.pc = "finally",
                                  !.voice_res = res,
                                  !.pending = Json(200, BiometricOut(me.face_res.val,
                                                                    res.val, TRUE))],
                    upload_dir)
    /\ UNCHANGED requests

\* the finally clause, then the return or the exception goes out
Finally(w) ==
    /\ workers[w].pc = "finally"
    /\ LET me == workers[w]
           dir == IF save_uploaded_files THEN upload_dir
                  ELSE Remove(Remove(upload_dir, me.img_path), me.aud_path)
       IN Step(w, [me EXCEPT !.pc = "done", !.resp = me.pending], dir)
    /\ UNCHANGED requests

\* the response is sent and the thread is free again
Release(w) ==
    /\ workers[w].pc = "done"
    /\ Step(w, IdleWorker, upload_dir)
    /\ UNCHANGED requests

NextThreads ==
    \E w \in Workers :
        \/ Receive(w)
        \/ SaveImage(w)
        \/ SaveAudio(w)
        \/ PredictFace(w)
        \/ PredictVoice(w)
        \/ Finally(w)
        \/ Release(w)

SpecThreads == InitThreads /\ [][NextThreads]_vars

(***************************************************************************)
(* Properties.                                                             *)
(***************************************************************************)
\* verify_biometric answered with a fused verdict
Fused == endpoint = "verify_biometric" /\ resp.status = 200
\* the two results the fused verdict was made from
FaceVerdict == face_res.val
VoiceVerdict == voice_res.val
\* confidence >= threshold, written out on the numbers
Passes(confidence, threshold) == confidence # NaN /\ ~(confidence < threshold)

SomeScores == {NaN, -1000, 0, 5, 11, 12, 13, 707, 1000}

\* C2: in bypass mode (higher = True) the fused result is authenticated if
\* and only if the face confidence passes the face threshold and both
\* modalities name the same identity, and no other voice confidence in the
\* place of the one scored changes the result.
C2_BypassFusion ==
    (Fused /\ higher) =>
        /\ resp.body.result.authenticated =
              (/\ Passes(FaceVerdict.confidence, 650)
               /\ FaceVerdict.person = VoiceVerdict.person)
        /\ \A c \in SomeScores :
              FusionDecision(FaceVerdict, [VoiceVerdict EXCEPT !.confidence = c],
                             higher).authenticated
                 = resp.body.result.authenticated

\* bypass mode authenticates on a voice confidence below the voice threshold
C2_Witness ==
    /\ Fused /\ higher
    /\ VoiceVerdict.confidence = 5
    /\ resp.body.result.authenticated

\* the response says that the voice threshold was bypassed
SaysBypassed(body) ==
    \/ "voice_threshold_bypassed" \in DOMAIN body
    \/ "voice_threshold_bypassed" \in DOMAIN body.result

\* C3: every fused verdict produced with the voice threshold bypassed
\* carries a flag in its output that says so.
C3_BypassFlagged ==
    (Fused /\ higher) => SaysBypassed(resp.body)

\* BiometricAuthService.verify_user answered with a fused verdict
ServiceFused ==
    /\ endpoint = "authenticate_biometric"
    /\ resp.status \in {200, 400}
    /\ "name" \in DOMAIN resp.body

\* C4: in every fused result the name is set if and only if the result is
\* authenticated, and a name that is set is the identity both modalities
\* matched.
C4_NameIffAuthenticated ==
    /\ Fused =>
          /\ (resp.body.result.name # NoneVal) = resp.body.result.authenticated
          /\ resp.body.result.name # NoneVal =>
                /\ resp.body.result.name = FaceVerdict.person
                /\ resp.body.result.name = VoiceVerdict.person
    /\ ServiceFused =>
          /\ (resp.body.name # NoneVal)
                = (FaceVerdict.authenticated /\ VoiceVerdict.authenticated)
          /\ (resp.body.name # NoneVal) = (resp.body.result = 1)
          \* both services score against the one enrolled identity
          /\ resp.body.name # NoneVal => resp.body.name = "Palash Shah"
    /\ (endpoint = "authenticate_biometric" /\ ~ServiceFused) =>
          (resp.status # 200 /\ "name" \notin DOMAIN resp.body)

\* an authenticated fused result that names the identity of both modalities
C4_Witness ==
    /\ Fused
    /\ resp.body.result.authenticated
    /\ resp.body.result.name = "palash"
    /\ VoiceVerdict.person = "palash"

\* a call was made, and it gave no verdict
Called(r) == r.exc # "not called"
\* the response is a failure the handler built itself
StructuredFailure(r) ==
    /\ r.json
    /\ "success" \in DOMAIN r.body /\ r.body.success = FALSE
    /\ "error" \in DOMAIN r.body

\* the face (the voice) gave no verdict to the fusion
FaceFailed ==
    /\ endpoint \in {"verify_biometric", "authenticate_biometric"}
    /\ Called(face_res)
    /\ Raised(face_res) \/ (endpoint = "authenticate_biometric" /\ ~face_res.val.success)
VoiceFailed ==
    /\ endpoint \in {"verify_biometric", "authenticate_biometric"}
    /\ Called(voice_res)
    /\ Raised(voice_res) \/ (endpoint = "authenticate_biometric" /\ ~voice_res.val.success)
\* the failure reports that name a modality that failed
NamingReports ==
    (IF FaceFailed THEN {"Face verification failed"} ELSE {})
    \cup (IF VoiceFailed THEN {"Voice verification failed"} ELSE {})

\* C5: when a modality gives no verdict during fusion, no fused decision is
\* produced and the failure reported names a modality that failed.
C5_FailureNamesModality ==
    (FaceFailed \/ VoiceFailed) =>
        /\ StructuredFailure(resp)
        /\ DOMAIN resp.body \cap {"result", "name", "faceMatch", "voiceMatch"} = {}
        /\ resp.body.error \in NamingReports

\* the form of a response: its success flag and its HTTP status class
Form(r) ==
    << IF r.json /\ "success" \in DOMAIN r.body
       THEN (IF r.body.success THEN "true" ELSE "false")
       ELSE "absent",
       r.status \div 100 >>

\* every modality asked was scored and the verdict is negative
NegativeVerdict ==
    \/ endpoint = "verify_face" /\ resp.status = 200 /\ ~resp.body.result.verified
    \/ endpoint = "verify_voice" /\ resp.status = 200 /\ ~resp.body.result.verified
    \/ Fused /\ ~resp.body.result.authenticated
    \/ /\ endpoint = "authenticate_face"
       /\ "authenticated" \in DOMAIN resp.body /\ ~resp.body.authenticated
    \/ /\ ServiceFused /\ resp.body.result = 0
       /\ resp.body.face_similarity # NaN /\ resp.body.voice_similarity # NaN

\* the forms the endpoint gives to requests whose extraction fails
ExtractionFailureForms ==
    LET badImage == {i \in AppImages : i.present /\ allowed_image(i.filename) /\ ~i.readable}
        okImage == {i \in AppImages : i.present /\ allowed_image(i.filename) /\ i.readable}
        badAudio == {a \in AppAudios : a.present /\ allowed_audio(a.filename) /\ ~a.readable}
        okAudio == {a \in AppAudios : a.present /\ allowed_audio(a.filename) /\ a.readable}
        badData == {i \in ServiceImages : i.is_json /\ i.present /\ (~i.decodable \/ ~i.faces)}
        okData == {i \in ServiceImages : i.is_json /\ i.present /\ i.decodable /\ i.faces}
        badClip == {a \in ServiceAudios : a.present /\ ~a.readable}
        okClip == {a \in ServiceAudios : a.present /\ a.readable}
    IN CASE endpoint = "verify_face" ->
              {Form(verify_face(i).resp) : i \in badImage}
         [] endpoint = "verify_voice" ->
              {Form(verify_voice(a, audio_embeddings_pth).resp) : a \in badAudio}
         [] endpoint = "verify_biometric" ->
              {Form(verify_biometric(i, a, audio_embeddings_pth, higher).resp) :
                  i \in badImage, a \in okAudio}
              \cup {Form(verify_biometric(i, a, audio_embeddings_pth, higher).resp) :
                  i \in okImage, a \in badAudio}
         [] endpoint = "authenticate_face" ->
              {Form(authenticate_face(i, palash_embedding).resp) : i \in badData}
         [] endpoint = "authenticate_biometric" ->
              {Form(authenticate_biometric(i, a, "within", palash_embedding, palash_voice).resp) :
                  i \in badData, a \in okClip}
              \cup {Form(authenticate_biometric(i, a, "within", palash_embedding, palash_voice).resp) :
                  i \in okData, a \in badClip}
         [] OTHER -> {}

\* C6: a request whose modalities were scored and whose verdict is negative
\* is never answered in the form (success flag, status class) in which the
\* same endpoint answers a request whose extraction failed.
C6_VerdictDistinctFromFailure ==
    NegativeVerdict => Form(resp) \notin ExtractionFailureForms

\* C7: wherever a threshold is applied (single face, single voice, fused
\* face, fused voice when the flag does not bypass it, the services), the
\* modality passes exactly when confidence >= threshold, equality included.
C7_InclusiveThreshold ==
    /\ (endpoint = "verify_face" /\ resp.status = 200) =>
          resp.body.result.verified = Passes(resp.body.result.confidence, 650)
    /\ (endpoint = "verify_voice" /\ resp.status = 200) =>
          resp.body.result.verified = Passes(resp.body.result.confidence, 12)
    /\ Fused =>
          resp.body.result.authenticated =
             (/\ Passes(FaceVerdict.confidence, 650)
              /\ higher \/ Passes(VoiceVerdict.confidence, 12)
              /\ FaceVerdict.person = VoiceVerdict.person)
    /\ (endpoint = "authenticate_face" /\ "authenticated" \in DOMAIN resp.body) =>
          resp.body.authenticated = Passes(resp.body.similarity, 700)
    /\ ServiceFused =>
          /\ resp.body.faceMatch = Passes(resp.body.face_similarity, 700)
          /\ resp.body.voiceMatch = Passes(resp.body.voice_similarity, 700)

\* a face confidence equal to the face threshold is verified
C7_Witness ==
    /\ endpoint = "verify_face" /\ resp.status = 200
    /\ resp.body.result.confidence = 650
    /\ resp.body.result.verified

\* predict_voice gave a verdict
VoiceScored ==
    endpoint \in {"verify_voice", "verify_biometric"} /\ resp.status = 200
FaceScored ==
    endpoint \in {"verify_face", "verify_biometric"} /\ resp.status = 200

\* C8 as claimed: the similarity map has exactly the reference set's
\* identity names as its keys.
C8_KeysEqualReference ==
    VoiceScored => Keys(VoiceVerdict.similarities) = Keys(audio_embeddings_pth)

\* C8 as amended: the voice similarity map has exactly the lower-cased
\* names of the reference set as its keys, each once (two names that differ
\* only in case share one key); the face map has the two classes of the
\* face model.
C8_KeysAreLoweredNames ==
    /\ VoiceScored =>
          /\ Keys(VoiceVerdict.similarities)
                = {Lower(k) : k \in Keys(audio_embeddings_pth)}
          /\ Cardinality(Keys(VoiceVerdict.similarities))
                = Len(VoiceVerdict.similarities)
    /\ FaceScored => Keys(FaceVerdict.similarities) = {"diptayan", "palash"}
    /\ Fused =>
          {resp.body.audio.results[i].className : i \in 1..Len(resp.body.audio.results)}
             = {Lower(k) : k \in Keys(audio_embeddings_pth)}

\* a reference set with a capitalised name was scored
C8_Witness ==
    /\ VoiceScored
    /\ "Palash" \in Keys(audio_embeddings_pth)
    /\ "palash" \in Keys(VoiceVerdict.similarities)
    /\ "Palash" \notin Keys(VoiceVerdict.similarities)

\* the dict d in the order p
Reordered(d, p) == [i \in 1..Len(d) |-> d[p[i]]]
\* the dicts that hold the entries of d in some order
Reorderings(d) == {Reordered(d, p) : p \in Permutations(1..Len(d))}
Items(d) == {d[i] : i \in 1..Len(d)}
\* every score of the map is a number
Comparable(d) == \A i \in 1..Len(d) : d[i][2] # NaN

\* C9: the best identity is a key of the similarity map that no other key
\* outscores, the confidence is its score, and the identity chosen among
\* equal maxima does not depend on the order of the reference set.
C9_ArgmaxOrderIndependent ==
    /\ FaceScored =>
          /\ FaceVerdict.person \in Keys(FaceVerdict.similarities)
          /\ FaceVerdict.confidence = Get(FaceVerdict.similarities, FaceVerdict.person)
          /\ \A k \in Keys(FaceVerdict.similarities) :
                ~(Get(FaceVerdict.similarities, k) > FaceVerdict.confidence)
    /\ VoiceScored =>
          /\ VoiceVerdict.person \in Keys(VoiceVerdict.similarities)
          /\ VoiceVerdict.confidence = Get(VoiceVerdict.similarities, VoiceVerdict.person)
          /\ \A k \in Keys(VoiceVerdict.similarities) :
                ~Gt(Get(VoiceVerdict.similarities, k), VoiceVerdict.confidence)
          /\ Comparable(VoiceVerdict.similarities) =>
                \A f \in Reorderings(audio_embeddings_pth) :
                   LET other == predict_voice(audio, f, higher).val
                   IN Items(other.similarities) = Items(VoiceVerdict.similarities)
                         => other.person = VoiceVerdict.person

\* C10: a query verified against an empty reference set is answered with a
\* structured failure and never with a verdict.
C10_EmptyReferenceSetReported ==
    (/\ endpoint \in {"verify_voice", "verify_biometric"}
     /\ Called(voice_res)
     /\ audio.readable
     /\ audio_embeddings_pth = <<>>) =>
        /\ resp.status # 200
        /\ StructuredFailure(resp)

\* the response carries a verdict
VerdictCarried ==
    \/ endpoint \in {"verify_face", "verify_voice", "verify_biometric"} /\ resp.status = 200
    \/ endpoint = "authenticate_face" /\ "authenticated" \in DOMAIN resp.body
    \/ ServiceFused

ZeroNorm(v) == Dot(v, v) = 0
\* the vectors of the reference dict d have the length of v
SameLength(v, d) == \A i \in 1..Len(d) : Len(d[i][2]) = Len(v)

\* a scoring took place in which the query or a reference has norm zero
DegenerateScored ==
    \/ /\ endpoint \in {"verify_voice", "verify_biometric"}
       /\ Called(voice_res)
       /\ audio.readable
       /\ audio_embeddings_pth # <<>>
       /\ SameLength(audio.emb, audio_embeddings_pth)
       /\ \/ ZeroNorm(audio.emb)
          \/ \E i \in 1..Len(audio_embeddings_pth) : ZeroNorm(audio_embeddings_pth[i][2])
    \/ /\ endpoint \in {"authenticate_face", "authenticate_biometric"}
       /\ Called(face_res) /\ ~Raised(face_res) /\ face_res.val.success
       /\ ZeroNorm(image.emb) \/ ZeroNorm(palash_embedding)
    \/ /\ endpoint = "authenticate_biometric"
       /\ Called(voice_res) /\ voice_res.val.success
       /\ ZeroNorm(audio.emb) \/ ZeroNorm(palash_voice)

\* an error arose while the request was handled: a predictor or a service
\* raised (extraction, empty reference set, dimension mismatch), a service
\* found nothing to extract, or a zero-norm embedding was scored
ErrorArose ==
    \/ Called(face_res) /\ Raised(face_res)
    \/ Called(voice_res) /\ Raised(voice_res)
    \/ /\ endpoint \in {"authenticate_face", "authenticate_biometric"}
       /\ Called(face_res) /\ ~Raised(face_res) /\ ~face_res.val.success
    \/ /\ endpoint = "authenticate_biometric"
       /\ Called(voice_res) /\ ~voice_res.val.success
    \/ DegenerateScored

\* C11: every error that arises while a verification request is handled
\* (extraction failure, empty reference set, dimension mismatch, degenerate
\* embedding) is answered with a structured failure response built by the
\* handler, on every endpoint; none leaves the handler as an exception.
C11_ErrorsAreStructuredFailures ==
    ErrorArose => (StructuredFailure(resp) /\ ~VerdictCarried)

\* C12: when the query embedding or a reference embedding has norm zero,
\* scoring reports an error: no similarity is nan and no verdict
\* (authenticated or not) is returned for the request.
C12_DegenerateEmbeddingReported ==
    DegenerateScored =>
        /\ StructuredFailure(resp)
        /\ ~VerdictCarried
        /\ Called(voice_res) /\ ~Raised(voice_res)
              /\ endpoint \in {"verify_voice", "verify_biometric"}
              => Comparable(VoiceVerdict.similarities)

\* C13: a request with one modality (verify_face, verify_voice,
\* authenticate_face) is verified exactly when that modality's confidence
\* is at least that modality's threshold; the other modality is not
\* consulted and the identity chosen plays no part.
C13_SingleModalityVerdict ==
    /\ (endpoint = "verify_face" /\ resp.status = 200) =>
          /\ resp.body.result.confidence = FaceVerdict.confidence
          /\ resp.body.result.verified = Passes(FaceVerdict.confidence, 650)
          /\ voice_res = NotCalled
    /\ (endpoint = "verify_voice" /\ resp.status = 200) =>
          /\ resp.body.result.confidence = VoiceVerdict.confidence
          /\ resp.body.result.verified = Passes(VoiceVerdict.confidence, 12)
          /\ face_res = NotCalled
    /\ (endpoint = "authenticate_face" /\ "authenticated" \in DOMAIN resp.body) =>
          /\ resp.body.similarity = FaceVerdict.similarity
          /\ resp.body.authenticated = Passes(FaceVerdict.similarity, 700)
          /\ voice_res = NotCalled

\* a voice-only request whose confidence lies between the voice threshold
\* and the face threshold is verified
C13_Witness ==
    /\ endpoint = "verify_voice" /\ resp.status = 200
    /\ resp.body.result.confidence = 12
    /\ resp.body.result.verified
    /\ face_res = NotCalled

\* C14: models and reference sets are loaded once when the process starts;
\* no load_* call is made while a request is handled.
C14_NoLoadWhileHandling ==
    loads = <<>>

\* names under which a response may echo a threshold
ThresholdNames == {"threshold", "thresholds", "face_threshold", "voice_threshold"}
\* the response echoes a threshold that was applied
EchoesThreshold ==
    \/ DOMAIN resp.body \cap ThresholdNames # {}
    \/ /\ endpoint \in {"verify_face", "verify_voice", "verify_biometric"}
       /\ DOMAIN resp.body.result \cap ThresholdNames # {}

\* C15: every response that carries a verdict, single-modality or fused,
\* echoes the threshold(s) applied to reach it.
C15_ThresholdsEchoed ==
    (VerdictCarried /\ ~DegenerateScored) => EchoesThreshold

\* C18: no request changes the reference sets: after any sequence of
\* requests audio_embeddings.pth and the two enrolled embeddings of the
\* services hold what they held when loaded.
C18_ReferenceSetUnchanged ==
    [][/\ audio_embeddings_pth' = audio_embeddings_pth
       /\ palash_embedding' = palash_embedding
       /\ palash_voice' = palash_voice]_vars

\* a voice was scored against a reference set with a capitalised name, which
\* the scoring lower-cases in its own map
C18_Witness ==
    /\ pc = "responded"
    /\ endpoint = "verify_voice" /\ resp.status = 200
    /\ Len(audio_embeddings_pth) = 2
    /\ "Palash" \in Keys(audio_embeddings_pth)
    /\ resp.body.result.person = "palash"

\* C20: in every fused result of BiometricAuthService.verify_user, success
\* is true iff faceMatch and voiceMatch are, result is 1 iff success is true
\* and 0 otherwise, name is set iff success is true, and faceMatch and
\* voiceMatch each say that the modality's similarity is at least its
\* threshold.
C20_FusedFieldsConsistent ==
    ServiceFused =>
        /\ resp.body.success = (resp.body.faceMatch /\ resp.body.voiceMatch)
        /\ resp.body.result = (IF resp.body.success THEN 1 ELSE 0)
        /\ (resp.body.name # NoneVal) = resp.body.success
        /\ resp.body.face_similarity = FaceVerdict.similarity
        /\ resp.body.voice_similarity = VoiceVerdict.similarity
        /\ resp.body.faceMatch = Passes(resp.body.face_similarity, 700)
        /\ resp.body.voiceMatch = Passes(resp.body.voice_similarity, 700)

\* a fused result with one modality matched and the other not
C20_Witness ==
    /\ ServiceFused
    /\ resp.body.faceMatch /\ ~resp.body.voiceMatch
    /\ ~resp.body.success /\ resp.body.result = 0
    /\ resp.body.name = NoneVal

\* thread w holds a request of verify_biometric that came to a verdict
FusedOn(w) ==
    /\ workers[w].endpoint = "verify_biometric"
    /\ workers[w].pc \in {"finally", "done"}
    /\ workers[w].pending.status = 200
\* the name holds the file that request rid saved from the upload data
Holds(n, kind, rid, data) ==
    /\ upload_dir[n].kind = kind
    /\ upload_dir[n].rid = rid
    /\ upload_dir[n].data = data
\* the names of UPLOAD_DIR that hold an upload which request rid saved
SavedBy(rid) ==
    {n \in TmpNames : upload_dir[n].kind \in {"image", "audio"} /\ upload_dir[n].rid = rid}

\* C16: whatever the interleaving of the threads, a request is answered as
\* the same request is answered when it runs alone, and from its first save
\* to its finally clause the files it saved hold its own uploads: no other
\* request overwrites or removes them.
C16_AnsweredAsIfAlone ==
    \A w \in Workers :
        LET me == workers[w]
        IN /\ (me.pc = "done" /\ ~me.io_error) =>
                 me.resp = RunAlone(me.endpoint, me.image, me.audio)
           /\ me.img_path # NoPath /\ me.pc # "done" =>
                 Holds(me.img_path, "image", me.rid, me.image)
           /\ me.aud_path # NoPath /\ me.pc # "done" =>
                 Holds(me.aud_path, "audio", me.rid, me.audio)

\* two requests with different uploads ran at the same time (their saves
\* alternate in UPLOAD_DIR) and each was answered with its own identity
C16_Witness ==
    \E w1, w2 \in Workers :
        /\ FusedOn(w1) /\ FusedOn(w2)
        /\ workers[w1].pc = "done" /\ workers[w2].pc = "done"
        /\ workers[w1].img_path < workers[w2].img_path
        /\ workers[w2].img_path < workers[w1].aud_path
        /\ workers[w1].resp.body.result.name = "diptayan"
        /\ workers[w2].resp.body.result.name = "palash"

C19_NoUploadRemains ==
    \A w \in Workers :
        LET me == workers[w]
        IN /\ (me.pc = "done" /\ ~save_uploaded_files) => SavedBy(me.rid) = {}
           /\ (me.pc = "done" /\ me.resp.status = 400) => SavedBy(me.rid) = {}

====
